---- MODULE Spec2Model ----
(***************************************************************************)
(* Model of the Mumbai train simulation server:                            *)
(*   - the Route Interpolator of the mock OSRD backend (osrdMockAPI.js)    *)
(*     and the per-train computation of GET /api/trains/current (index.js),*)
(*   - the Track Locator findNearestTrack (snap module),                   *)
(*   - the Simulation Orchestrator OSRDService.simulateMumbaiTrains, the   *)
(*     request handlers of index.js that use it, and the backend routes    *)
(*     they talk to.                                                       *)
(* Times are seconds; a clock string "HH:MM:SS" is the tuple <<h, m, s>>   *)
(* that split(':').map(Number) makes of it.  Coordinates are whole         *)
(* degrees; an interpolated coordinate is an exact fraction                *)
(* <<numerator, denominator>>.                                             *)
(***************************************************************************)
EXTENDS Integers, Sequences, FiniteSets, TLC

VARIABLES
    \* ---- Route Interpolator harness
    train,          \* the schedule record handed to the interpolator
    queryTime,      \* currentTimeSeconds of the last query
    position,       \* what interpolateTrainPosition returned for it
    liveTrain,      \* what the GET /api/trains/current computation returned
    \* ---- Track Locator harness
    trainPoint,     \* trainPointLonLat
    railwayFeatures,\* the ordered feature list
    maxDistanceKm,  \* the search radius
    bestTrack,      \* what findNearestTrack returned
    \* ---- server process (index.js) and backend (osrdMockAPI.js)
    mumbaiTrainsData,    \* schedules loaded at startup (index.js:21-32)
    currentSimulationId, \* global.currentSimulationId
    simulationState,     \* OSRDMockAPI.simulationState
    now,                 \* wall clock (Date.now()); steps with no Tick
                         \* between them read the same value
    calls,               \* in-flight and finished requests, per caller
    lastWrite,           \* the request whose handler wrote the handle last
    \* ---- railway track fetch (fetchRailwayTracks and its cache)
    cache,          \* the NodeCache: key -> [v, t], t the expiry time
    fetches,        \* calls of fetchRailwayTracks, in flight and finished
    stored,         \* per box: the last result stored and not cleared since
    trackClock      \* Date.now() in seconds, as the cache reads it

vars == <<train, queryTime, position, liveTrain,
          trainPoint, railwayFeatures, maxDistanceKm, bestTrack,
          mumbaiTrainsData, currentSimulationId, simulationState, now, calls,
          lastWrite, cache, fetches, stored, trackClock>>

interpVars == <<train, queryTime, position, liveTrain>>
snapVars == <<trainPoint, railwayFeatures, maxDistanceKm, bestTrack>>
trackVars == <<cache, fetches, stored, trackClock>>
serverVars == <<mumbaiTrainsData, currentSimulationId, simulationState, now,
                calls, lastWrite>>

(***************************************************************************)
(* Bounds of the model                                                     *)
(***************************************************************************)
MaxRoutePoints == 3
MaxStations == 3
MaxFeatures == 3
MaxCalls == 2
MaxClock == 1
MaxFetches == 2
MaxLifetimes == 1

(***************************************************************************)
(* Program constants                                                       *)
(***************************************************************************)
SecondsPerHour == 3600
SecondsPerMinute == 60
HoursPerDay == 24
DefaultSpeedKmph == 40
JourneyDuration == 3600
MetersPerKm == 1000
StartHour == 9
MockTotalTime == 28800
MockTimeStep == 30
RunTimeStep == 30
SimpleHorizonMinutes == 480
StdTTL == 86400

\* an unset handle or id; ids are pairs <<prefix, Date.now()>>
None == <<"undefined">>
TypeError == "TypeError"

Min(a, b) == IF a <= b THEN a ELSE b
Max(a, b) == IF a >= b THEN a ELSE b

(***************************************************************************)
(* Exact fractions: the value of a JavaScript number expression            *)
(***************************************************************************)
Frac(n, d) == <<n, d>>
Whole(n) == <<n, 1>>
FracEq(a, b) ==
    IF a[2] = b[2] THEN a[1] = b[1] ELSE a[1] * b[2] = b[1] * a[2]
FracLeq(a, b) ==
    IF a[2] = b[2] THEN a[1] <= b[1] ELSE a[1] * b[2] <= b[1] * a[2]

\* a + (b - a) * (r / d), for integers a, b and the fraction r / d
\* an interpolation that starts from the far point
LerpFromEnd(a, b, r, d) == Frac(b * d + (a - b) * r, d)

Lerp(a, b, r, d) == Frac(a * d + (b - a) * r, d)

\* 0 / 0: the fraction with denominator 0 is JavaScript's NaN
IsNaN(a) == a[2] = 0

(***************************************************************************)
(* Input data                                                              *)
(***************************************************************************)
RoutePoint(k) ==
    CASE k = 1 -> [lat |-> 19, lon |-> 72]
      [] k = 2 -> [lat |-> 20, lon |-> 73]
      [] OTHER -> [lat |-> 20 + 2 * (k - 2), lon |-> 73 - (k - 2)]

Routes == {[k \in 1..n |-> RoutePoint(k)] : n \in 0..MaxRoutePoints}

\* departure_time strings: "09:00", "09:00:30", "23:30"
DepartureTimes == {<<9, 0>>, <<9, 0, 30>>, <<23, 30>>}

\* halt_time_sec of the k-th station of the data file
HaltTimes == {0, 1800, 3600}

StationName(k) == <<"station", k>>

DataStations ==
    UNION {[1..n -> HaltTimes] : n \in 0..MaxStations}

Speeds == {0, 60}

(***************************************************************************)
(* osrdMockAPI.js: loading the schedules                                   *)
(***************************************************************************)
\* "HH:MM:SS" of departure + halt, hours wrapped at 24; the departure's own
\* seconds are not read
calculateArrivalTime(departureTime, haltTimeSeconds) ==
    LET departureSeconds == departureTime[1] * SecondsPerHour
                            + departureTime[2] * SecondsPerMinute
        arrivalSeconds == departureSeconds + haltTimeSeconds
    IN  << (arrivalSeconds \div SecondsPerHour) % HoursPerDay,
           (arrivalSeconds % SecondsPerHour) \div SecondsPerMinute,
           arrivalSeconds % SecondsPerMinute >>

timeToSeconds(timeStr) ==
    timeStr[1] * SecondsPerHour + timeStr[2] * SecondsPerMinute + timeStr[3]

\* one train of the data file as initializeMumbaiTrains stores it
osrdTrain(id, departureTime, speed, halts, route) ==
    [train_id |-> id,
     departure_time |-> departureTime,
     speed_kmph |-> speed,
     stations |-> [k \in 1..Len(halts) |->
                     [name |-> StationName(k),
                      lat |-> RoutePoint(k).lat,
                      lon |-> RoutePoint(k).lon,
                      arrival |-> calculateArrivalTime(departureTime, halts[k])]],
     route_geometry |-> route]

Trains ==
    {osrdTrain("T", d, v, h, r) :
        d \in DepartureTimes, v \in Speeds, h \in DataStations, r \in Routes}

(***************************************************************************)
(* osrdMockAPI.js: the Route Interpolator                                  *)
(***************************************************************************)
SpeedOf(t) == IF t.speed_kmph = 0 THEN DefaultSpeedKmph ELSE t.speed_kmph

\* the departure as the interpolator reads it: hours and minutes only
DepartureSeconds(t) ==
    t.departure_time[1] * SecondsPerHour + t.departure_time[2] * SecondsPerMinute

\* the station the progress falls on, not the one after it
findNextStationCurrent(t, progress) ==
    LET totalStations == Len(t.stations)
        stationIndex == (progress[1] * totalStations) \div progress[2]
    IN  t.stations[Min(stationIndex + 1, totalStations)].name

findNextStation(t, progress) ==
    LET totalStations == Len(t.stations)
        stationIndex == (progress[1] * totalStations) \div progress[2]
    IN  IF stationIndex >= totalStations - 1
        THEN t.stations[totalStations].name
        ELSE t.stations[stationIndex + 2].name

\* the first index i (1-based) of the loop at which the query time lies
\* between the arrivals of station i and station i + 1; 0 when there is none
RECURSIVE FindSegment(_, _, _)
FindSegment(stations, currentTimeSeconds, i) ==
    IF i > Len(stations) - 1 THEN 0
    ELSE IF /\ currentTimeSeconds >= timeToSeconds(stations[i].arrival)
            /\ currentTimeSeconds <= timeToSeconds(stations[i + 1].arrival)
         THEN i
         ELSE FindSegment(stations, currentTimeSeconds, i + 1)

interpolateByStations(t, currentTimeSeconds) ==
    LET stations == t.stations
        i == FindSegment(stations, currentTimeSeconds, 1)
    IN  IF i > 0
        THEN LET currentStationTime == timeToSeconds(stations[i].arrival)
                 nextStationTime == timeToSeconds(stations[i + 1].arrival)
                 r == currentTimeSeconds - currentStationTime
                 d == nextStationTime - currentStationTime
             IN  [lat |-> Lerp(stations[i].lat, stations[i + 1].lat, r, d),
                  lon |-> Lerp(stations[i].lon, stations[i + 1].lon, r, d),
                  speed |-> SpeedOf(t),
                  status |-> "running",
                  next_station |-> stations[i + 1].name]
        ELSE IF Len(stations) = 0
        THEN [status |-> TypeError]
        ELSE IF currentTimeSeconds < timeToSeconds(stations[1].arrival)
        THEN [lat |-> Whole(stations[1].lat),
              lon |-> Whole(stations[1].lon),
              speed |-> 0,
              status |-> "waiting",
              next_station |-> stations[1].name]
        ELSE [lat |-> Whole(stations[Len(stations)].lat),
              lon |-> Whole(stations[Len(stations)].lon),
              speed |-> 0,
              status |-> "completed",
              next_station |-> stations[Len(stations)].name]

\* the early returns of interpolateTrainPosition: before departure
WaitingBranch(elapsed) == elapsed < 0

\* ... and at or after the last station's arrival
CompletedBranch(elapsed, totalJourneyTime) == elapsed >= totalJourneyTime

\* a progress that counts the remaining time
ProgressRemaining(elapsed, totalJourneyTime) ==
    Frac(totalJourneyTime - elapsed, totalJourneyTime)

\* progress along the route (0 to 1): elapsed / totalJourneyTime
Progress(elapsed, totalJourneyTime) == Frac(elapsed, totalJourneyTime)

interpolateTrainPosition(t, currentTimeSeconds) ==
    IF Len(t.route_geometry) = 0
    THEN interpolateByStations(t, currentTimeSeconds)
    ELSE IF Len(t.stations) = 0
    THEN [status |-> TypeError]
    ELSE
    LET route == t.route_geometry
        departureSeconds == DepartureSeconds(t)
        lastStation == t.stations[Len(t.stations)]
        arrivalSeconds == timeToSeconds(lastStation.arrival)
        totalJourneyTime == arrivalSeconds - departureSeconds
        elapsed == currentTimeSeconds - departureSeconds
    IN  IF WaitingBranch(elapsed)
        THEN [lat |-> Whole(route[1].lat),
              lon |-> Whole(route[1].lon),
              speed |-> 0,
              status |-> "waiting",
              next_station |-> t.stations[1].name]
        ELSE IF CompletedBranch(elapsed, totalJourneyTime)
        THEN [lat |-> Whole(route[Len(route)].lat),
              lon |-> Whole(route[Len(route)].lon),
              speed |-> 0,
              status |-> "completed",
              next_station |-> lastStation.name]
        ELSE
        LET progress == Progress(elapsed, totalJourneyTime)
            totalPoints == Len(route)
            \* exactPosition = progress * (totalPoints - 1), as a fraction
            exactNum == progress[1] * (totalPoints - 1)
            currentIndex == exactNum \div totalJourneyTime
            nextIndex == Min(currentIndex + 1, totalPoints - 1)
            segmentNum == exactNum - currentIndex * totalJourneyTime
            currentPoint == route[currentIndex + 1]
            nextPoint == route[nextIndex + 1]
        IN  [lat |-> Lerp(currentPoint.lat, nextPoint.lat, segmentNum,
                          totalJourneyTime),
             lon |-> Lerp(currentPoint.lon, nextPoint.lon, segmentNum,
                          totalJourneyTime),
             speed |-> SpeedOf(t),
             status |-> "running",
             next_station |-> findNextStation(t, progress),
             progress |-> progress]

(***************************************************************************)
(* index.js: the per-train computation of GET /api/trains/current          *)
(***************************************************************************)
\* status of a live train from its clamped elapsed time and its progress
LiveStatus(elapsed, progress) ==
    IF FracLeq(Whole(1), progress) THEN "completed"
    ELSE IF elapsed = 0 THEN "waiting"
    ELSE "running"

LiveTrain(t, currentTimeSeconds) ==
    IF Len(t.route_geometry) = 0
    THEN [status |-> TypeError]
    ELSE
    LET route == t.route_geometry
        departureSeconds == DepartureSeconds(t)
        elapsed == Max(currentTimeSeconds - departureSeconds, 0)
        totalRoutePoints == Len(route)
        progress == Frac(Min(elapsed, JourneyDuration), JourneyDuration)
        exactNum == progress[1] * (totalRoutePoints - 1)
        routeIndex == exactNum \div JourneyDuration
        nextIndex == Min(routeIndex + 1, totalRoutePoints - 1)
        segmentNum == exactNum - routeIndex * JourneyDuration
        currentPoint == route[routeIndex + 1]
        nextPoint == route[nextIndex + 1]
        status == LiveStatus(elapsed, progress)
    IN  [lat |-> Lerp(currentPoint.lat, nextPoint.lat, segmentNum,
                      JourneyDuration),
         lon |-> Lerp(currentPoint.lon, nextPoint.lon, segmentNum,
                      JourneyDuration),
         speed |-> IF status = "running" THEN t.speed_kmph ELSE 0,
         status |-> status,
         progress |-> progress]

(***************************************************************************)
(* snap module: the Track Locator                                          *)
(***************************************************************************)
\* Positions are metres along one meridian.  A LineString's coordinates are
\* its vertices in order; other geometries carry none that matter.
Abs(x) == IF x < 0 THEN -x ELSE x

\* distance from p to the segment between a and b
SegmentDist(p, a, b) ==
    IF p < Min(a, b) THEN Min(a, b) - p
    ELSE IF p > Max(a, b) THEN p - Max(a, b)
    ELSE 0

\* turf.nearestPointOnLine(line, point, {units: 'meters'}).properties.dist:
\* the least distance over all consecutive vertex pairs
RECURSIVE NearestPointDist(_, _, _)
NearestPointDist(coords, p, i) ==
    IF i = Len(coords) - 1
    THEN SegmentDist(p, coords[i], coords[i + 1])
    ELSE Min(SegmentDist(p, coords[i], coords[i + 1]),
             NearestPointDist(coords, p, i + 1))

\* IsBetter without the search radius
IsBetterNoLimit(distance, maxKm, minDistance) ==
    minDistance = -1 \/ distance < minDistance

\* IsBetter with <= in place of <: the last of equally near tracks wins
IsBetterLastWins(distance, maxKm, minDistance) ==
    /\ distance <= maxKm * MetersPerKm
    /\ (minDistance = -1 \/ distance <= minDistance)

\* the test that lets a feature replace the best one found so far
\* (minDistance = -1 stands for Infinity: nothing found yet)
IsBetter(distance, maxKm, minDistance) ==
    /\ distance <= maxKm * MetersPerKm
    /\ (minDistance = -1 \/ distance < minDistance)

IsLineString(feature) == feature.geometry.type = "LineString"

NoTrack == [called |-> TRUE, found |-> FALSE]

\* the loop of findNearestTrack from feature i on, with the best so far
RECURSIVE NearestFrom(_, _, _, _, _)
NearestFrom(p, features, maxKm, i, best) ==
    IF i > Len(features) THEN best
    ELSE IF ~IsLineString(features[i])
    THEN NearestFrom(p, features, maxKm, i + 1, best)
    ELSE
    LET distance == NearestPointDist(features[i].geometry.coordinates, p, 1)
        minDistance == IF best.found THEN best.distance ELSE -1
    IN  IF IsBetter(distance, maxKm, minDistance)
        THEN NearestFrom(p, features, maxKm, i + 1,
                         [called |-> TRUE, found |-> TRUE,
                          feature |-> features[i], distance |-> distance])
        ELSE NearestFrom(p, features, maxKm, i + 1, best)

findNearestTrack(p, features, maxKm) ==
    NearestFrom(p, features, maxKm, 1, NoTrack)

\* ---- inputs of the Track Locator harness
TrackFeature(name, type, coords) ==
    [properties |-> [name |-> name],
     geometry |-> [type |-> type, coordinates |-> coords]]

Features ==
    { TrackFeature("western", "LineString", <<0, 400>>),
      TrackFeature("central", "LineString", <<600, 700, 650>>),
      TrackFeature("harbour", "LineString", <<1500, 3000>>),
      TrackFeature("yard", "Polygon", <<450, 550>>),
      TrackFeature("halt", "Point", <<500>>) }

FeatureLists == UNION {[1..n -> Features] : n \in 0..MaxFeatures}

TrainPoints == {0, 500, 1400, 1401, 4000, 4001, 5001}

MaxDistances == {1, 2}

(***************************************************************************)
(* Harness of the Route Interpolator: one train, queried at any time       *)
(***************************************************************************)
QueryHours == {0, 8, 9, 10, 23, 24}
QueryMinutes == {0, 29, 30, 59}
QuerySeconds == {0, 30, 59}

QueryTimes ==
    {h * SecondsPerHour + m * SecondsPerMinute + s :
        h \in QueryHours, m \in QueryMinutes, s \in QuerySeconds}

\* local times of day, as GET /api/trains/current reads the clock
LocalTimes == {t \in QueryTimes : t < HoursPerDay * SecondsPerHour}

NoResult == [status |-> "none"]

IdleSnap ==
    /\ trainPoint = 0
    /\ railwayFeatures = <<>>
    /\ maxDistanceKm = 1
    /\ bestTrack = [called |-> FALSE]

IdleTracks ==
    /\ cache = <<>>
    /\ fetches = <<>>
    /\ stored = <<>>
    /\ trackClock = 0

IdleInterp ==
    /\ train = osrdTrain("T", <<9, 0>>, 0, <<>>, <<>>)
    /\ queryTime = 0
    /\ position = NoResult
    /\ liveTrain = NoResult

IdleServer ==
    /\ mumbaiTrainsData = <<>>
    /\ currentSimulationId = None
    /\ simulationState = [startTime |-> 0, isRunning |-> FALSE,
                          currentTime |-> <<StartHour, 0, 0>>]
    /\ now = 0
    /\ calls = <<>>
    /\ lastWrite = 0

InitInterp ==
    /\ train \in Trains
    /\ queryTime = 0
    /\ position = NoResult
    /\ liveTrain = NoResult
    /\ IdleSnap
    /\ IdleServer
    /\ IdleTracks

\* getTrainsAtTime: the backend asks the interpolator for the train at t
QueryPosition ==
    \E t \in QueryTimes :
        /\ position = NoResult /\ liveTrain = NoResult
        /\ queryTime' = t
        /\ position' = interpolateTrainPosition(train, t)
        /\ liveTrain' = NoResult
        /\ UNCHANGED <<train, snapVars, serverVars, trackVars>>

\* GET /api/trains/current computes the same train at local time t
QueryLiveTrain ==
    \E t \in LocalTimes :
        /\ position = NoResult /\ liveTrain = NoResult
        /\ queryTime' = t
        /\ liveTrain' = LiveTrain(train, t)
        /\ position' = NoResult
        /\ UNCHANGED <<train, snapVars, serverVars, trackVars>>

NextInterp == QueryPosition \/ QueryLiveTrain

SpecInterp == InitInterp /\ [][NextInterp]_vars

(***************************************************************************)
(* Harness of the Track Locator                                            *)
(***************************************************************************)
InitSnap ==
    /\ trainPoint \in TrainPoints
    /\ railwayFeatures \in FeatureLists
    /\ maxDistanceKm \in MaxDistances
    /\ bestTrack = [called |-> FALSE]
    /\ IdleInterp
    /\ IdleServer
    /\ IdleTracks

\* snapTrainToTracks calls findNearestTrack on its inputs
Snap ==
    /\ ~bestTrack.called
    /\ bestTrack' = findNearestTrack(trainPoint, railwayFeatures, maxDistanceKm)
    /\ UNCHANGED <<trainPoint, railwayFeatures, maxDistanceKm, interpVars,
                   serverVars, trackVars>>

NextSnap == Snap

SpecSnap == InitSnap /\ [][NextSnap]_vars

(***************************************************************************)
(* osrdMockAPI.js: the backend's simulation clock and state route          *)
(***************************************************************************)
\* "HH:MM:SS" of 09:00:00 plus the wall-clock seconds since the last run
\* call; the configured currentTime while no run call was served.  The
\* hours are not wrapped at 24.  The code's floating-point hours, minutes
\* and seconds are taken in exact arithmetic.
getCurrentSimulationTime(state, clock) ==
    IF ~state.isRunning THEN state.currentTime
    ELSE LET elapsed == clock - state.startTime
         IN  << StartHour + elapsed \div SecondsPerHour,
                (elapsed % SecondsPerHour) \div SecondsPerMinute,
                elapsed % SecondsPerMinute >>

getTrainsAtTime(trains, currentTime) ==
    LET currentTimeSeconds == timeToSeconds(currentTime)
    IN  [k \in 1..Len(trains) |->
            LET p == interpolateTrainPosition(trains[k], currentTimeSeconds)
            IN  IF p.status = TypeError THEN p
                ELSE [train_id |-> trains[k].train_id,
                      lat |-> p.lat,
                      lon |-> p.lon,
                      speed |-> p.speed,
                      status |-> p.status,
                      next_station |-> p.next_station,
                      current_time |-> currentTime]]

\* the time the state route computes the trains for: it reads the backend
\* clock and not the request's time parameter
StateRouteTime(state, clock, timeParam) ==
    getCurrentSimulationTime(state, clock)

\* GET /simulation/:id/state
StateRoute(state, trains, clock, timeParam) ==
    LET currentTime == StateRouteTime(state, clock, timeParam)
    IN  [current_time |-> currentTime,
         trains |-> getTrainsAtTime(trains, currentTime)]

\* a state route that writes the time it computed back into the state
StateAfterQueryStamped(state, clock) ==
    [state EXCEPT !.currentTime = getCurrentSimulationTime(state, clock)]

\* the simulation state after GET /simulation/:id/state was served: the
\* route reads the state through getCurrentSimulationTime and assigns
\* none of its fields
StateAfterQuery(state, clock) == state

\* a run route that starts the clock and keeps the start time it found
RunRouteKeepStart(state, clock) ==
    [state EXCEPT !.isRunning = TRUE]

\* POST /simulation/:id/run
RunRoute(state, clock) ==
    [state EXCEPT !.isRunning = TRUE, !.startTime = clock]

(***************************************************************************)
(* osrdService.js: the Simulation Orchestrator                             *)
(***************************************************************************)
Pending == [state |-> "pending"]
Return(v) == [state |-> "returned", value |-> v]
Throw(e) == [state |-> "raised", error |-> e]

\* every train entry but the first: a map that starts one index late
MockTrainEntriesSkipFirst(trains) ==
    [k \in 1..(Len(trains) - 1) |->
        [train_id |-> trains[k + 1].train_id,
         positions |-> MockTotalTime \div MockTimeStep + 1]]

\* trains.map(...) of mockSimulation: one entry per train, in order, with
\* the number of samples the loop  for (time = 0; time <= totalTime;
\* time += timeStep)  pushes
MockTrainEntries(trains) ==
    [k \in 1..Len(trains) |->
        [train_id |-> trains[k].train_id,
         positions |-> MockTotalTime \div MockTimeStep + 1]]

mockSimulation(trains, clock) ==
    IF \E k \in 1..Len(trains) : Len(trains[k].route_geometry) = 0
    THEN Throw(TypeError)
    ELSE Return([success |-> TRUE,
                 simulationId |-> <<"mock", clock>>,
                 trains |-> MockTrainEntries(trains),
                 metadata |-> [type |-> "mock_simulation",
                               total_trains |-> Len(trains)]])

\* a catch block that passes the error on instead of falling back
RethrowOnFailure(trains, clock) == Throw("Error")

\* the else branch and the catch block of simulateMumbaiTrains
FallBackToMock(trains, clock) == mockSimulation(trains, clock)

\* runSimulation's return value for a served run call
RunResult(simulationId, trains) ==
    [success |-> TRUE,
     simulationId |-> simulationId,
     trains |-> [k \in 1..Len(trains) |-> trains[k].train_id],
     metadata |-> [start_time |-> <<9, 0, 0>>,
                   end_time |-> <<18, 0, 0>>,
                   real_time |-> TRUE]]

(***************************************************************************)
(* index.js: the request handlers                                          *)
(***************************************************************************)
Outcomes == {"ok", "error", "timeout"}

WR_9001 == osrdTrain("WR_9001", <<9, 0>>, 60, <<0, 1800>>,
                     [k \in 1..2 |-> RoutePoint(k)])
CR_9002 == osrdTrain("CR_9002", <<9, 0>>, 0, <<0, 3600>>,
                     [k \in 1..3 |-> RoutePoint(k)])
HR_9003 == osrdTrain("HR_9003", <<9, 0>>, 60, <<0, 1800>>, <<>>)

\* the schedule lists the data file may hold
ScheduleLists ==
    { <<>>, <<WR_9001>>, <<CR_9002, WR_9001>>, <<WR_9001, HR_9003>> }

NoResponse == [status |-> 0]

\* no run call issued
NoRequest == [time_step |-> 0]

\* a run call that names the stored handle
RunRequestForHandle(simulationId) ==
    [simulationId |-> currentSimulationId,
     start_time |-> <<9, 0, 0>>, end_time |-> <<18, 0, 0>>,
     time_step |-> RunTimeStep, real_time |-> TRUE]

\* the run call simulateMumbaiTrains issues for the created simulation:
\* POST /simulation/<simulationId>/run with the default window
RunRequest(simulationId) ==
    [simulationId |-> simulationId,
     start_time |-> <<9, 0, 0>>, end_time |-> <<18, 0, 0>>,
     time_step |-> RunTimeStep, real_time |-> TRUE]

NewCall(kind) ==
    [kind |-> kind, pc |-> "start", simulationId |-> None,
     request |-> NoRequest,
     timeParam |-> <<0, 0, 0>>, probe |-> "none", create |-> "none",
     run |-> "none", query |-> "none", ret |-> Pending,
     response |-> NoResponse]

\* the handle after a handler's  await simulateMumbaiTrains(...)  settled
\* with the assignment of line 518 made whether or not it returned
HandleAfterActivationAlways(old, ret) ==
    IF ret.state = "returned" THEN ret.value.simulationId ELSE None

\* a handle that is written only while it is unset
HandleKeepFirst(old, ret) ==
    IF ret.state = "returned" /\ old = None
    THEN ret.value.simulationId ELSE old

\* the handle after  await simulateMumbaiTrains(...)  settled in GET
\* /api/osrd/simulation: line 518 runs only when it returned
HandleAfterActivation(old, ret) ==
    IF ret.state = "returned" THEN ret.value.simulationId ELSE old

\* the response of GET /api/osrd/simulation once the call settled
ActivationResponse(ret, trains) ==
    IF ret.state = "returned"
    THEN [status |-> 200, success |-> TRUE, simulation |-> ret.value,
          simulationId |-> ret.value.simulationId,
          trains_count |-> Len(trains)]
    ELSE [status |-> 500, error |-> "Simulation failed"]

\* an activation that records nothing when a step settles and so stays
\* where it is
KeepWaiting(c, ret, outcomes) ==
    /\ calls' = calls
    /\ UNCHANGED <<currentSimulationId, lastWrite>>

\* simulateMumbaiTrains settles with ret in call c; for a handler the rest
\* of the handler runs in the same turn of the event loop
Settle(c, ret, outcomes) ==
    IF calls[c].kind = "activate"
    THEN /\ calls' = [calls EXCEPT ![c] =
                [outcomes EXCEPT
                    !.pc = "done", !.ret = ret,
                    !.response = ActivationResponse(ret, mumbaiTrainsData)]]
         /\ currentSimulationId' =
                HandleAfterActivation(currentSimulationId, ret)
         /\ lastWrite' = IF ret.state = "returned" THEN c ELSE lastWrite
    ELSE /\ calls' = [calls EXCEPT ![c] =
                [outcomes EXCEPT !.pc = "done", !.ret = ret]]
         /\ UNCHANGED <<currentSimulationId, lastWrite>>

InitServer ==
    /\ mumbaiTrainsData \in ScheduleLists
    /\ currentSimulationId = None
    /\ simulationState = [startTime |-> 0, isRunning |-> FALSE,
                          currentTime |-> <<StartHour, 0, 0>>]
    /\ now = 0
    /\ calls = <<>>
    /\ lastWrite = 0
    /\ IdleInterp
    /\ IdleSnap
    /\ IdleTracks

\* GET /api/osrd/simulation arrives: rejected when no schedules are loaded,
\* else simulateMumbaiTrains(mumbaiTrainsData) issues the health probe
StartActivation ==
    /\ Len(calls) < MaxCalls
    /\ calls' = Append(calls,
         IF Len(mumbaiTrainsData) = 0
         THEN [NewCall("activate") EXCEPT
                  !.pc = "done",
                  !.response = [status |-> 404,
                                error |-> "No train data available"]]
         ELSE [NewCall("activate") EXCEPT !.pc = "probe"])
    /\ UNCHANGED <<mumbaiTrainsData, currentSimulationId, simulationState,
                   now, lastWrite, interpVars, snapVars,
                   trackVars>>

\* simulateMumbaiTrains(mumbaiTrainsData) called on the service itself,
\* whatever the list holds
StartDirect ==
    /\ Len(calls) < MaxCalls
    /\ calls' = Append(calls, [NewCall("direct") EXCEPT !.pc = "probe"])
    /\ UNCHANGED <<mumbaiTrainsData, currentSimulationId, simulationState,
                   now, lastWrite, interpVars, snapVars,
                   trackVars>>

\* the health probe settles: healthy issues the create call, anything else
\* falls back to local generation
ProbeReturns ==
    \E c \in 1..Len(calls), outcome \in Outcomes :
        /\ calls[c].pc = "probe"
        /\ IF outcome = "ok"
           THEN /\ calls' = [calls EXCEPT ![c].pc = "create",
                                          ![c].probe = outcome]
                /\ UNCHANGED <<currentSimulationId, lastWrite>>
           ELSE Settle(c, FallBackToMock(mumbaiTrainsData, now),
                       [calls[c] EXCEPT !.probe = outcome])
        /\ UNCHANGED <<mumbaiTrainsData, simulationState, now, interpVars,
                       snapVars, trackVars>>

\* POST /simulation settles: the backend issued sim_<Date.now()>
CreateReturns ==
    \E c \in 1..Len(calls), outcome \in Outcomes :
        /\ calls[c].pc = "create"
        /\ IF outcome = "ok"
           THEN /\ calls' = [calls EXCEPT ![c].pc = "run",
                                          ![c].create = outcome,
                                          ![c].simulationId = <<"sim", now>>,
                                          ![c].request =
                                              RunRequest(<<"sim", now>>)]
                /\ UNCHANGED <<currentSimulationId, lastWrite>>
           ELSE Settle(c, FallBackToMock(mumbaiTrainsData, now),
                       [calls[c] EXCEPT !.create = outcome])
        /\ UNCHANGED <<mumbaiTrainsData, simulationState, now, interpVars,
                       snapVars, trackVars>>

\* POST /simulation/:id/run settles; a call that timed out at the client may
\* still have been served by the backend
RunReturns ==
    \E c \in 1..Len(calls), outcome \in Outcomes, served \in BOOLEAN :
        /\ calls[c].pc = "run"
        /\ outcome = "ok" => served
        /\ outcome = "error" => ~served
        /\ simulationState' = IF served THEN RunRoute(simulationState, now)
                              ELSE simulationState
        /\ IF outcome = "ok"
           THEN Settle(c, Return(RunResult(calls[c].simulationId,
                                           mumbaiTrainsData)),
                       [calls[c] EXCEPT !.run = outcome])
           ELSE Settle(c, FallBackToMock(mumbaiTrainsData, now),
                       [calls[c] EXCEPT !.run = outcome])
        /\ UNCHANGED <<mumbaiTrainsData, now, interpVars, snapVars,
                   trackVars>>

\* local time of day "HH:MM:SS" of the server at wall clock `clock`
LocalTime(clock) ==
    << StartHour + clock \div SecondsPerHour,
       (clock % SecondsPerHour) \div SecondsPerMinute,
       clock % SecondsPerMinute >>

\* GET /api/osrd/simulation/current arrives.  With no handle stored the
\* handler evaluates the undeclared name mumbaiTrains (line 633), which
\* throws a ReferenceError that its catch block answers with 500.
StartCurrent ==
    /\ Len(calls) < MaxCalls
    /\ calls' = Append(calls,
         IF currentSimulationId = None
         THEN [NewCall("current") EXCEPT
                  !.pc = "done",
                  !.timeParam = LocalTime(now),
                  !.response = [status |-> 500, success |-> FALSE,
                                error |-> "mumbaiTrains is not defined"]]
         ELSE [NewCall("current") EXCEPT
                  !.pc = "state",
                  !.timeParam = LocalTime(now),
                  !.simulationId = currentSimulationId])
    /\ UNCHANGED <<mumbaiTrainsData, currentSimulationId, simulationState,
                   now, lastWrite, interpVars, snapVars,
                   trackVars>>

SimulationIds ==
    {<<"sim", 0>>} \cup ({currentSimulationId} \ {None})

TimeParams == {<<9, 0, 0>>, <<9, 15, 0>>}

\* GET /api/osrd/simulation/:simulationId/state?time=... arrives
StartState ==
    \E id \in SimulationIds, time \in TimeParams :
        /\ Len(calls) < MaxCalls
        /\ calls' = Append(calls, [NewCall("state") EXCEPT
                                     !.pc = "state",
                                     !.timeParam = time,
                                     !.simulationId = id])
        /\ UNCHANGED <<mumbaiTrainsData, currentSimulationId,
                       simulationState, now, lastWrite, interpVars, snapVars,
                   trackVars>>

\* the response of a state query whose backend call was answered
StateResponse(call, state, handle) ==
    IF call.kind = "current"
    THEN [status |-> 200, success |-> TRUE,
          currentTime |-> call.timeParam,
          trains |-> state.trains,
          simulationId |-> handle]
    ELSE [status |-> 200, success |-> TRUE,
          currentTime |-> state.current_time,
          trains |-> state.trains]

\* the response of a state query whose backend call failed:
\* getSimulationState throws and the handler's catch block answers
StateFailureResponse(call) ==
    IF call.kind = "current"
    THEN [status |-> 500, success |-> FALSE,
          error |-> "Failed to get simulation state: request failed"]
    ELSE [status |-> 500,
          error |-> "Failed to get simulation state",
          message |-> "Failed to get simulation state: request failed"]

\* GET /simulation/:id/state settles.  The backend answers 500 when its
\* own handler throws.
StateReturns ==
    \E c \in 1..Len(calls), outcome \in Outcomes :
        /\ calls[c].pc = "state"
        /\ LET state == StateRoute(simulationState, mumbaiTrainsData, now,
                                   calls[c].timeParam)
               threw == \E k \in 1..Len(state.trains) :
                           state.trains[k].status = TypeError
           IN  /\ outcome = "ok" => ~threw
               /\ calls' = [calls EXCEPT
                     ![c].pc = "done",
                     ![c].query = outcome,
                     ![c].response =
                         IF outcome = "ok"
                         THEN StateResponse(calls[c], state,
                                            currentSimulationId)
                         ELSE StateFailureResponse(calls[c])]
        /\ simulationState' = StateAfterQuery(simulationState, now)
        /\ UNCHANGED <<mumbaiTrainsData, currentSimulationId,
                       now, lastWrite, interpVars, snapVars,
                   trackVars>>

\* a second of wall-clock time passes
Tick ==
    /\ now < MaxClock
    /\ now' = now + 1
    /\ UNCHANGED <<mumbaiTrainsData, currentSimulationId, simulationState,
                   calls, lastWrite, interpVars, snapVars,
                   trackVars>>

\* ---- the server: handlers interleave at their awaits
Next ==
    \/ StartActivation
    \/ ProbeReturns
    \/ CreateReturns
    \/ RunReturns
    \/ StartCurrent
    \/ StartState
    \/ StateReturns
    \/ Tick

Init == InitServer

Spec == Init /\ [][Next]_vars

\* ---- activations one after the other, through the handler or directly
AllDone == \A c \in 1..Len(calls) : calls[c].pc = "done"

NextActivation ==
    \/ (AllDone /\ StartActivation)
    \/ (AllDone /\ StartDirect)
    \/ ProbeReturns
    \/ CreateReturns
    \/ RunReturns
    \/ Tick

SpecActivation == InitServer /\ [][NextActivation]_vars

\* ---- activations one after the other at one reading of the wall clock.
\* Every backend call of the service is made through apiClient, whose
\* timeout of 60 s settles a call the backend never answers: an issued
\* probe, create or run call does settle.
NextTermination ==
    \/ (AllDone /\ StartActivation)
    \/ (AllDone /\ StartDirect)
    \/ ProbeReturns
    \/ CreateReturns
    \/ RunReturns

SpecTermination ==
    /\ InitServer
    /\ [][NextTermination]_vars
    /\ WF_vars(ProbeReturns)
    /\ WF_vars(CreateReturns)
    /\ WF_vars(RunReturns)

\* ---- the backend seen by its clients: run calls and state queries
\* POST /simulation/:id/run served for some client
ServeRun ==
    /\ simulationState' = RunRoute(simulationState, now)
    /\ UNCHANGED <<mumbaiTrainsData, currentSimulationId, now, calls,
                   lastWrite, interpVars, snapVars,
                   trackVars>>

NextBackend ==
    \/ StartState
    \/ StateReturns
    \/ ServeRun
    \/ Tick

SpecBackend == InitServer /\ [][NextBackend]_vars

(***************************************************************************)
(* Properties of the Route Interpolator                                    *)
(***************************************************************************)
\* the departure with the seconds its string carries
FullDepartureSeconds(t) ==
    DepartureSeconds(t)
    + (IF Len(t.departure_time) >= 3 THEN t.departure_time[3] ELSE 0)

\* the last station's arrival
ArrivalSeconds(t) == timeToSeconds(t.stations[Len(t.stations)].arrival)

AtPoint(sample, point) ==
    /\ ~IsNaN(sample.lat) /\ ~IsNaN(sample.lon)
    /\ FracEq(sample.lat, Whole(point.lat))
    /\ FracEq(sample.lon, Whole(point.lon))

Between(x, a, b) ==
    /\ ~IsNaN(x)
    /\ FracLeq(Whole(Min(a, b)), x)
    /\ FracLeq(x, Whole(Max(a, b)))

\* the sample lies on some leg of the route, or on its only point
OnRoute(sample, route) ==
    \/ \E k \in 1..Len(route) : AtPoint(sample, route[k])
    \/ \E k \in 1..(Len(route) - 1) :
          /\ Between(sample.lat, route[k].lat, route[k + 1].lat)
          /\ Between(sample.lon, route[k].lon, route[k + 1].lon)

\* a train with route geometry and stations that arrives, on the same day,
\* no earlier than it departs
RunsWithinDay(t) ==
    /\ Len(t.route_geometry) > 0
    /\ Len(t.stations) > 0
    /\ ArrivalSeconds(t) >= FullDepartureSeconds(t)

\* C6: for every train with route geometry, interpolateTrainPosition returns
\* waiting at the first route point when t < departure, completed at the
\* last route point when t >= arrival (departure + journey duration), and
\* never a position off the route.  Stated for trains that run within one
\* day; the code breaks it for a departure time that carries seconds.
C6_WaitingBeforeCompletedAfter ==
    (position # NoResult /\ RunsWithinDay(train)) =>
        /\ position.status \in {"waiting", "running", "completed"}
        /\ queryTime < FullDepartureSeconds(train) =>
              /\ position.status = "waiting"
              /\ AtPoint(position, train.route_geometry[1])
        /\ queryTime >= ArrivalSeconds(train) =>
              /\ position.status = "completed"
              /\ AtPoint(position,
                         train.route_geometry[Len(train.route_geometry)])
        /\ OnRoute(position, train.route_geometry)

\* C7: at exactly the departure time the sample is running with progress 0,
\* at exactly the arrival time it is completed at progress 1 (the route
\* end), for interpolateTrainPosition and for GET /api/trains/current
\* (arrival = departure + 3600 s).  Stated for departure times "HH:MM" and
\* journeys of positive duration; GET /api/trains/current breaks it.
C7_BoundaryStatus ==
    /\ (/\ position # NoResult
        /\ RunsWithinDay(train)
        /\ Len(train.departure_time) = 2
        /\ ArrivalSeconds(train) > DepartureSeconds(train)) =>
          /\ queryTime = DepartureSeconds(train) =>
                /\ position.status = "running"
                /\ position.progress[1] = 0
          /\ queryTime = ArrivalSeconds(train) =>
                /\ position.status = "completed"
                /\ AtPoint(position,
                           train.route_geometry[Len(train.route_geometry)])
    /\ (/\ liveTrain # NoResult
        /\ Len(train.route_geometry) > 0
        /\ Len(train.departure_time) = 2) =>
          /\ queryTime = DepartureSeconds(train) =>
                /\ liveTrain.status = "running"
                /\ liveTrain.progress[1] = 0
          /\ queryTime = DepartureSeconds(train) + JourneyDuration =>
                /\ liveTrain.status = "completed"
                /\ FracEq(liveTrain.progress, Whole(1))

(***************************************************************************)
(* Properties of the Track Locator                                         *)
(***************************************************************************)
DistTo(i) ==
    NearestPointDist(railwayFeatures[i].geometry.coordinates, trainPoint, 1)

\* the LineString features within the search radius, by index
Eligible ==
    {i \in 1..Len(railwayFeatures) :
        /\ IsLineString(railwayFeatures[i])
        /\ DistTo(i) <= maxDistanceKm * MetersPerKm}

\* C9: findNearestTrack never returns a track farther than the maximum
\* distance, returns null exactly when no LineString feature is within it,
\* and never returns a feature that is not a LineString.
C9_WithinMaxDistance ==
    bestTrack.called =>
        /\ bestTrack.found =>
              \E i \in 1..Len(railwayFeatures) :
                  /\ bestTrack.feature = railwayFeatures[i]
                  /\ IsLineString(railwayFeatures[i])
                  /\ bestTrack.distance = DistTo(i)
                  /\ bestTrack.distance <= maxDistanceKm * MetersPerKm
        /\ ~bestTrack.found <=> Eligible = {}

\* a track was returned although another LineString lies beyond the radius
\* and a nearer feature is no LineString
C9_Witness ==
    /\ bestTrack.called /\ bestTrack.found
    /\ \E i \in 1..Len(railwayFeatures) :
          /\ IsLineString(railwayFeatures[i])
          /\ DistTo(i) > maxDistanceKm * MetersPerKm
    /\ \E i \in 1..Len(railwayFeatures) : ~IsLineString(railwayFeatures[i])

\* C10: the returned track is at the least distance among the LineString
\* features within the radius, and is the first in input order of those at
\* that distance.
C10_FirstNearestWins ==
    (bestTrack.called /\ bestTrack.found) =>
        \E i \in Eligible :
            /\ \A j \in Eligible : DistTo(i) <= DistTo(j)
            /\ \A j \in Eligible : DistTo(j) = DistTo(i) => i <= j
            /\ bestTrack.feature = railwayFeatures[i]
            /\ bestTrack.distance = DistTo(i)

\* two different tracks tie at the least distance
C10_Witness ==
    /\ bestTrack.called /\ bestTrack.found
    /\ \E i, j \in Eligible :
          /\ i < j
          /\ DistTo(i) = DistTo(j)
          /\ DistTo(i) = bestTrack.distance
          /\ railwayFeatures[i] # railwayFeatures[j]

(***************************************************************************)
(* Properties of the Simulation Orchestrator                               *)
(***************************************************************************)
\* call c ran simulateMumbaiTrains to its end
Activated(c) ==
    /\ calls[c].kind \in {"activate", "direct"}
    /\ calls[c].pc = "done"
    /\ calls[c].probe # "none"

AllGeometry(trains) ==
    \A k \in 1..Len(trains) : Len(trains[k].route_geometry) > 0

BackendSucceeded(c) ==
    calls[c].probe = "ok" /\ calls[c].create = "ok" /\ calls[c].run = "ok"

\* C1: called with a non-empty list of trains that all have route geometry,
\* simulateMumbaiTrains returns a result and does not raise, whatever the
\* outcomes of the probe, the create call and the run call.
C1_NeverRaises ==
    \A c \in 1..Len(calls) :
        (/\ Activated(c)
         /\ Len(mumbaiTrainsData) > 0
         /\ AllGeometry(mumbaiTrainsData)) =>
            /\ calls[c].ret.state = "returned"
            /\ calls[c].ret.value.success

\* the run call timed out after probe and create succeeded, and the
\* activation still returned
C1_Witness ==
    \E c \in 1..Len(calls) :
        /\ Activated(c)
        /\ Len(mumbaiTrainsData) > 0
        /\ AllGeometry(mumbaiTrainsData)
        /\ calls[c].run = "timeout"
        /\ calls[c].ret.state = "returned"

C4_EmptyListRejected ==
    \A c \in 1..Len(calls) :
        (/\ calls[c].kind \in {"activate", "direct"}
         /\ calls[c].pc = "done"
         /\ Len(mumbaiTrainsData) = 0) =>
            /\ calls[c].kind = "activate" => calls[c].response.status = 404
            /\ calls[c].ret.state # "returned"
            /\ currentSimulationId = None

(***************************************************************************)
(* Properties of the request handlers                                      *)
(***************************************************************************)
StateQueryDone(c) ==
    /\ calls[c].kind \in {"current", "state"}
    /\ calls[c].pc = "done"

\* C3: a state query whose backend call failed or timed out is answered
\* from local generation and not as a failure.  The handlers break it.
C3_StateFailureRecovered ==
    \A c \in 1..Len(calls) :
        (StateQueryDone(c) /\ calls[c].query \in {"error", "timeout"}) =>
            /\ calls[c].response.status = 200
            /\ calls[c].response.success

C8_SameQuerySameAnswer ==
    \A c, d \in 1..Len(calls) :
        (/\ StateQueryDone(c) /\ StateQueryDone(d)
         /\ calls[c].response.status = 200
         /\ calls[d].response.status = 200
         /\ calls[c].simulationId = calls[d].simulationId
         /\ calls[c].timeParam = calls[d].timeParam) =>
            LET a == calls[c].response.trains
                b == calls[d].response.trains
            IN  /\ Len(a) = Len(b)
                /\ \A k \in 1..Len(a) :
                      /\ a[k].train_id = b[k].train_id
                      /\ a[k].status = b[k].status
                      /\ a[k].speed = b[k].speed
                      /\ FracEq(a[k].lat, b[k].lat)
                      /\ FracEq(a[k].lon, b[k].lon)

(***************************************************************************)
(* Properties of simulation ids                                            *)
(***************************************************************************)
\* C11: any two activations get distinct simulation ids, however close in
\* time they are.  Two activations that read the same Date.now() break it.
C11_DistinctIds ==
    \A c, d \in 1..Len(calls) :
        (/\ c # d
         /\ Activated(c) /\ Activated(d)
         /\ calls[c].ret.state = "returned"
         /\ calls[d].ret.state = "returned") =>
            calls[c].ret.value.simulationId # calls[d].ret.value.simulationId

(***************************************************************************)
(* Termination of an activation                                            *)
(***************************************************************************)
InFlight(c) == c <= Len(calls) /\ calls[c].pc # "done"

Settled(c) == c <= Len(calls) /\ calls[c].pc = "done"

TimedOut(c) ==
    /\ c <= Len(calls)
    /\ "timeout" \in {calls[c].probe, calls[c].create, calls[c].run}

\* call c ended in mockSimulation's result
LocalResult(c) ==
    /\ calls[c].ret.state = "returned"
    /\ calls[c].ret.value.simulationId[1] = "mock"
    /\ calls[c].ret.value.metadata.type = "mock_simulation"

FinishedActivation(c) ==
    /\ calls[c].kind = "activate"
    /\ calls[c].pc = "done"
    /\ calls[c].ret.state = "returned"

\* C13: under every interleaving of the handlers the handle is unset or is
\* the whole id some finished activation returned, and it is the id of the
\* activation that wrote last (in particular once no activation is in
\* flight).
C13_HandleIsLastWrite ==
    /\ \/ currentSimulationId = None
       \/ \E c \in 1..Len(calls) :
             /\ FinishedActivation(c)
             /\ currentSimulationId = calls[c].ret.value.simulationId
    /\ lastWrite = 0 => currentSimulationId = None
    /\ lastWrite # 0 =>
          /\ FinishedActivation(lastWrite)
          /\ currentSimulationId = calls[lastWrite].ret.value.simulationId

\* the request that arrived second finished first: the handle holds the id
\* of the first request, which wrote last
C13_Witness ==
    /\ Len(calls) = 2
    /\ FinishedActivation(1) /\ FinishedActivation(2)
    /\ lastWrite = 1
    /\ calls[1].ret.value.simulationId # calls[2].ret.value.simulationId
    /\ currentSimulationId = calls[1].ret.value.simulationId

(***************************************************************************)
(* Railway track fetch: fetchRailwayTracks and its cache                   *)
(***************************************************************************)
\* cache.get answers undefined for a key it does not hold
Undefined == [type |-> "undefined"]

\* bounding boxes <<south, west, north, east>>; the two differ in west only
Boxes == { <<18, 72, 19, 73>>, <<18, 70, 19, 73>> }

\* a key that leaves the western boundary out
cacheKeyNoWest(south, west, north, east) ==
    <<"railway", south, 0, north, east>>

\* `railway_${south}_${west}_${north}_${east}`
cacheKey(south, west, north, east) ==
    <<"railway", south, west, north, east>>

KeyOf(box) == cacheKey(box[1], box[2], box[3], box[4])

\* NodeCache.get: the value under the key unless its expiry time has passed
cacheGet(c, key, clock) ==
    IF key \in DOMAIN c /\ ~(c[key].t < clock) THEN c[key].v ELSE Undefined

\* NodeCache.set with the standard lifetime
cacheSet(c, key, value, clock) ==
    [k \in (DOMAIN c) \cup {key} |->
        IF k = key THEN [v |-> value, t |-> clock + StdTTL] ELSE c[k]]

\* NodeCache.flushAll
EmptyCache == <<>>

\* features of an upstream answer after osmtogeojson
Way == [geometry |-> "LineString", railway |-> TRUE]
Station == [geometry |-> "Point", railway |-> TRUE]
Road == [geometry |-> "LineString", railway |-> FALSE]

Responses == { <<>>, <<Way>>, <<Way, Station, Road>> }

IsRailwayTrack(feature) ==
    feature.geometry = "LineString" /\ feature.railway

\* the collection built from a successful upstream answer
railwayTracks(data, box, clock) ==
    LET features == SelectSeq(data, IsRailwayTrack)
    IN  [type |-> "FeatureCollection",
         features |-> features,
         metadata |-> [fetchedAt |-> clock, boundingBox |-> box,
                       trackCount |-> Len(features)]]

\* the collection returned from the catch block
FetchFailure(box, clock) ==
    [type |-> "FeatureCollection",
     features |-> <<>>,
     error |-> "Failed to fetch railway data",
     metadata |-> [fetchedAt |-> clock, boundingBox |-> box,
                   trackCount |-> 0]]

\* a catch block that caches the collection it returns
CacheAfterFailureStored(c, key, value, clock) ==
    cacheSet(c, key, value, clock)

\* the cache after the catch block returned: it makes no cache call
CacheAfterFailure(c, key, value, clock) == c

\* the times at which the clock is read
TrackTimes ==
    UNION { {k * StdTTL - 1, k * StdTTL, k * StdTTL + 1} :
               k \in 0..MaxLifetimes } \cap Nat

NotStored == [at |-> -1]

InitTracks ==
    /\ cache = EmptyCache
    /\ fetches = <<>>
    /\ stored = [b \in Boxes |-> NotStored]
    /\ trackClock = 0
    /\ IdleInterp
    /\ IdleSnap
    /\ IdleServer

\* fetchRailwayTracks(south, west, north, east) up to its await: a hit
\* returns the cached value, a miss issues the upstream request
StartFetch ==
    \E box \in Boxes :
        /\ Len(fetches) < MaxFetches
        /\ LET cachedData == cacheGet(cache, KeyOf(box), trackClock)
           IN  fetches' = Append(fetches,
                 IF cachedData # Undefined
                 THEN [box |-> box, pc |-> "done", cachedData |-> cachedData,
                       requests |-> 0, result |-> cachedData]
                 ELSE [box |-> box, pc |-> "fetching",
                       cachedData |-> cachedData,
                       requests |-> 1, result |-> Undefined])
        /\ UNCHANGED <<cache, stored, trackClock, interpVars, snapVars,
                       serverVars>>

\* the upstream request settles: an answer is converted, filtered, cached
\* and returned; a failure or the 30 s timeout returns the empty collection
FetchReturns ==
    \E c \in 1..Len(fetches), outcome \in {"ok", "error"},
       data \in Responses :
        /\ fetches[c].pc = "fetching"
        /\ outcome = "error" => data = <<>>
        /\ LET box == fetches[c].box
               tracks == railwayTracks(data, box, trackClock)
           IN  IF outcome = "ok"
               THEN /\ cache' = cacheSet(cache, KeyOf(box), tracks,
                                         trackClock)
                    /\ stored' = [stored EXCEPT ![box] =
                                     [at |-> trackClock, v |-> tracks]]
                    /\ fetches' = [fetches EXCEPT ![c].pc = "done",
                                                  ![c].result = tracks]
               ELSE /\ fetches' = [fetches EXCEPT
                                     ![c].pc = "done",
                                     ![c].result =
                                         FetchFailure(box, trackClock)]
                    /\ cache' = CacheAfterFailure(cache, KeyOf(box),
                                     FetchFailure(box, trackClock),
                                     trackClock)
                    /\ UNCHANGED stored
        /\ UNCHANGED <<trackClock, interpVars, snapVars, serverVars>>

\* clearCache()
ClearCache ==
    /\ cache # EmptyCache
    /\ cache' = EmptyCache
    /\ stored' = [b \in Boxes |-> NotStored]
    /\ UNCHANGED <<fetches, trackClock, interpVars, snapVars, serverVars>>

\* time passes
AdvanceClock ==
    \E t \in TrackTimes :
        /\ t > trackClock
        /\ trackClock' = t
        /\ UNCHANGED <<cache, fetches, stored, interpVars, snapVars,
                       serverVars>>

NextTracks ==
    \/ StartFetch
    \/ FetchReturns
    \/ ClearCache
    \/ AdvanceClock

SpecTracks == InitTracks /\ [][NextTracks]_vars

\* the key the box (south, west, north, east) is cached under
BoxKey(box) == <<"railway", box[1], box[2], box[3], box[4]>>

\* C14: fetchRailwayTracks consults the cache first.  A call that finds
\* its box's key present and unexpired issues no upstream request and
\* returns the cached value; a call that finds it absent issues one
\* request, and a successful answer is stored under exactly that key when
\* the call returns; a call for a box whose result was stored less than
\* the lifetime ago, with no clear since, is a hit with that result.
C14_CacheBeforeFetch ==
    [][ /\ Len(fetches') = Len(fetches) + 1 =>
            LET call == fetches'[Len(fetches')]
                key == BoxKey(call.box)
            IN  /\ (key \in DOMAIN cache /\ trackClock < cache[key].t) =>
                      /\ call.requests = 0
                      /\ call.pc = "done"
                      /\ call.result = cache[key].v
                /\ key \notin DOMAIN cache =>
                      /\ call.requests = 1
                      /\ call.pc = "fetching"
                /\ (/\ stored[call.box] # NotStored
                    /\ trackClock < stored[call.box].at + StdTTL) =>
                      /\ call.requests = 0
                      /\ call.result = stored[call.box].v
        /\ \A c \in 1..Len(fetches) :
              (/\ fetches[c].pc = "fetching"
               /\ fetches'[c].pc = "done"
               /\ fetches'[c].result.type = "FeatureCollection"
               /\ "error" \notin DOMAIN fetches'[c].result) =>
                  LET key == BoxKey(fetches[c].box)
                  IN  /\ key \in DOMAIN cache'
                      /\ cache'[key].v = fetches'[c].result
                      /\ \A k \in (DOMAIN cache') \ {key} :
                            k \in DOMAIN cache /\ cache'[k] = cache[k]
      ]_vars

\* a miss stored one track and, almost a lifetime later, a second call for
\* the same box was a hit, while the other box was still a miss
C14_Witness ==
    /\ Len(fetches) = 2
    /\ fetches[1].box = fetches[2].box
    /\ fetches[1].requests = 1
    /\ fetches[1].pc = "done"
    /\ fetches[2].requests = 0
    /\ fetches[2].pc = "done"
    /\ Len(fetches[2].result.features) = 1
    /\ trackClock = StdTTL - 1

(***************************************************************************)
(* Monotonicity of the position computations                               *)
(***************************************************************************)
\* floor(progress x (pointCount - 1)) of a sample that carries a progress
RouteIndex(sample, route) ==
    (sample.progress[1] * (Len(route) - 1)) \div sample.progress[2]

\* the sample is no further along the route than the later one
NotAhead(sample, later, route) ==
    /\ FracLeq(sample.progress, later.progress)
    /\ RouteIndex(sample, route) <= RouteIndex(later, route)

\* C15: for two query times t1 < t2 at which a train is running, the
\* progress and the lower route index at t1 are at most those at t2, for
\* interpolateTrainPosition and for GET /api/trains/current.
C15_ProgressMonotone ==
    /\ (position # NoResult /\ position.status = "running"
        /\ Len(train.route_geometry) > 0) =>
          \A t2 \in QueryTimes :
              LET later == interpolateTrainPosition(train, t2)
              IN  (queryTime < t2 /\ later.status = "running") =>
                      NotAhead(position, later, train.route_geometry)
    /\ (liveTrain # NoResult /\ liveTrain.status = "running") =>
          \A t2 \in LocalTimes :
              LET later == LiveTrain(train, t2)
              IN  (queryTime < t2 /\ later.status = "running") =>
                      NotAhead(liveTrain, later, train.route_geometry)

\* a running train on a route of three points that is on a later leg at
\* some later time
C15_Witness ==
    /\ position # NoResult
    /\ position.status = "running"
    /\ Len(train.route_geometry) = 3
    /\ position.progress[1] > 0
    /\ \E t2 \in QueryTimes :
          LET later == interpolateTrainPosition(train, t2)
          IN  /\ queryTime < t2
              /\ later.status = "running"
              /\ RouteIndex(position, train.route_geometry)
                     < RouteIndex(later, train.route_geometry)

(***************************************************************************)
(* Order of the backend calls of one activation                            *)
(***************************************************************************)
Failed(outcome) == outcome \in {"error", "timeout"}

\* C16: in one activation the create call is issued only after a healthy
\* probe, the run call only after a successful create and for the id create
\* returned, over 09:00:00 to 18:00:00 with a 30-second step; local
\* generation happens only after an unhealthy probe or a failed step, and
\* after a failed step no further backend call is issued.
C16_StepOrder ==
    \A c \in 1..Len(calls) :
        calls[c].kind \in {"activate", "direct"} =>
            /\ (calls[c].pc = "create" \/ calls[c].create # "none") =>
                  calls[c].probe = "ok"
            /\ (calls[c].pc = "run" \/ calls[c].run # "none"
                \/ calls[c].request # NoRequest) =>
                  /\ calls[c].create = "ok"
                  /\ calls[c].simulationId[1] = "sim"
                  /\ calls[c].request.simulationId = calls[c].simulationId
                  /\ calls[c].request.start_time = <<9, 0, 0>>
                  /\ calls[c].request.end_time = <<18, 0, 0>>
                  /\ calls[c].request.time_step = 30
            /\ (calls[c].probe # "none" /\ calls[c].pc = "done"
                /\ ~BackendSucceeded(c)) =>
                  \/ Failed(calls[c].probe)
                  \/ Failed(calls[c].create)
                  \/ Failed(calls[c].run)
            /\ Failed(calls[c].probe) =>
                  /\ calls[c].create = "none" /\ calls[c].run = "none"
                  /\ calls[c].request = NoRequest
                  /\ calls[c].pc = "done"
            /\ Failed(calls[c].create) =>
                  /\ calls[c].run = "none"
                  /\ calls[c].request = NoRequest
                  /\ calls[c].pc = "done"
            /\ Failed(calls[c].run) => calls[c].pc = "done"

\* probe and create succeeded, the run call for the created id failed, and
\* the result was generated locally
C16_Witness ==
    \E c \in 1..Len(calls) :
        /\ calls[c].probe = "ok"
        /\ calls[c].create = "ok"
        /\ calls[c].run = "error"
        /\ calls[c].request.simulationId = calls[c].simulationId
        /\ calls[c].ret.state = "returned"
        /\ calls[c].ret.value.simulationId[1] = "mock"

(***************************************************************************)
(* GET /api/osrd/simulation/current and the handle                         *)
(***************************************************************************)
\* ---- the server some time after an activation stored a locally
\* generated id: later activations and current-state requests interleave
InitWithHandle ==
    /\ mumbaiTrainsData \in ScheduleLists \ {<<>>}
    /\ AllGeometry(mumbaiTrainsData)
    /\ currentSimulationId = <<"mock", 0>>
    /\ simulationState = [startTime |-> 0, isRunning |-> FALSE,
                          currentTime |-> <<StartHour, 0, 0>>]
    /\ now = 0
    /\ calls = <<>>
    /\ lastWrite = 0
    /\ IdleInterp
    /\ IdleSnap
    /\ IdleTracks

NextHandleRace ==
    \/ StartActivation
    \/ ProbeReturns
    \/ CreateReturns
    \/ RunReturns
    \/ StartCurrent
    \/ StateReturns
    \/ Tick

SpecHandleRace == InitWithHandle /\ [][NextHandleRace]_vars

\* C17: the simulationId in a GET /api/osrd/simulation/current response is
\* the id whose state was queried for it, also when an activation
\* overwrites the handle while the query is in flight.  The handler reads
\* the handle again after the await and breaks it.
C17_ReportedIdIsQueriedId ==
    \A c \in 1..Len(calls) :
        (/\ calls[c].kind = "current"
         /\ calls[c].pc = "done"
         /\ calls[c].response.status = 200) =>
            calls[c].response.simulationId = calls[c].simulationId

\* C18: GET /api/osrd/simulation/current served while no handle is stored
\* activates a simulation, stores its id and answers success with the
\* state of that id.  The handler fails before it activates.
C18_CurrentActivates ==
    \A c \in 1..Len(calls) :
        (/\ calls[c].kind = "current"
         /\ calls[c].pc = "done"
         /\ calls[c].query \notin {"error", "timeout"}) =>
            /\ calls[c].response.status = 200
            /\ calls[c].response.success
            /\ calls[c].response.simulationId # None
            /\ currentSimulationId # None

(***************************************************************************)
(* The status of a train over one day                                      *)
(***************************************************************************)
SecondsPerDay == HoursPerDay * SecondsPerHour

StatusRank(status) ==
    CASE status = "waiting" -> 0
      [] status = "running" -> 1
      [] status = "completed" -> 2
      [] OTHER -> -1

\* C19: as the query time grows within one day the status of a train only
\* moves forward through waiting, running, completed, for
\* interpolateTrainPosition and for interpolateByStations (trains without
\* route geometry) with the arrivals calculateArrivalTime produced.
\* interpolateByStations breaks it.
C19_StatusOnlyForward ==
    (/\ position # NoResult
     /\ Len(train.stations) > 0
     /\ queryTime < SecondsPerDay) =>
        \A t2 \in QueryTimes :
            (queryTime < t2 /\ t2 < SecondsPerDay) =>
                StatusRank(position.status)
                    <= StatusRank(interpolateTrainPosition(train, t2).status)

(***************************************************************************)
(* Local generation against the Route Interpolator                         *)
(***************************************************************************)
\* osrdService.js formatTime: seconds as "HH:MM:SS"
formatTime(seconds) ==
    << seconds \div SecondsPerHour,
       (seconds % SecondsPerHour) \div SecondsPerMinute,
       seconds % SecondsPerMinute >>

\* the sample the loop of mockSimulation pushes for a train at `time`:
\* on the straight line from the first to the last route point
MockSample(t, time) ==
    LET startCoord == t.route_geometry[1]
        endCoord == t.route_geometry[Len(t.route_geometry)]
    IN  [time |-> formatTime(time),
         lat |-> Lerp(startCoord.lat, endCoord.lat, time, MockTotalTime),
         lon |-> Lerp(startCoord.lon, endCoord.lon, time, MockTotalTime),
         speed |-> SpeedOf(t),
         status |-> IF time >= MockTotalTime THEN "completed"
                    ELSE "running"]

\* the times of the loop: 0, 30, ..., 28800
IsSampleTime(time) ==
    /\ time >= 0
    /\ time <= MockTotalTime
    /\ time % MockTimeStep = 0

\* C20: every sample of local generation equals what
\* interpolateTrainPosition gives for the schedule at the sample's time:
\* same status, same position on the route polyline.  mockSimulation
\* interpolates on its own and breaks it.
C20_MockEqualsInterpolator ==
    (/\ position # NoResult
     /\ Len(train.route_geometry) > 0
     /\ Len(train.stations) > 0
     /\ IsSampleTime(queryTime)) =>
        LET sample == MockSample(train, queryTime)
        IN  /\ timeToSeconds(sample.time) = queryTime
            /\ sample.status = position.status
            /\ FracEq(sample.lat, position.lat)
            /\ FracEq(sample.lon, position.lon)

(***************************************************************************)
(* The samples of local generation                                         *)
(***************************************************************************)
\* index-simple.js generateTrainSimulation: the sample pushed at the k-th
\* turn (k = 0, 1, ...) of  for (minutes = 0; minutes < 480; minutes += 0.5)
\* for a route of two or more points, generated at wall clock `clock`
generateTrainSample(t, k, clock) ==
    LET route == t.route_geometry
        steps == 2 * SimpleHorizonMinutes
        exactNum == Min(k, steps) * (Len(route) - 1)
        segmentIndex == exactNum \div steps
        startPoint == route[segmentIndex + 1]
        endPoint == route[Min(segmentIndex + 1, Len(route) - 1) + 1]
    IN  [time |-> LocalTime(clock + k * (SecondsPerMinute \div 2)),
         lat |-> Lerp(startPoint.lat, endPoint.lat,
                      exactNum - segmentIndex * steps, steps),
         lon |-> Lerp(startPoint.lon, endPoint.lon,
                      exactNum - segmentIndex * steps, steps),
         speed |-> SpeedOf(t),
         status |-> IF k >= steps THEN "completed" ELSE "running"]

\* C21: local generation emits for every schedule samples whose times
\* start at the time of the activation and advance in 30-second steps over
\* exactly 8 hours, the first at the route start and the last at the route
\* end with status completed.  The sample times of mockSimulation start at
\* 00:00:00 whenever it runs, and the last sample of
\* generateTrainSimulation is running, half a minute short of the end.
C21_SamplesFromActivation ==
    \A c \in 1..Len(calls) :
        (Activated(c) /\ LocalResult(c)) =>
            \A k \in 1..Len(mumbaiTrainsData) :
                LET t == mumbaiTrainsData[k]
                    first == MockSample(t, 0)
                    last == MockSample(t, MockTotalTime)
                    activatedAt == calls[c].ret.value.simulationId[2]
                IN  /\ calls[c].ret.value.trains[k].positions
                          = MockTotalTime \div MockTimeStep + 1
                    /\ AtPoint(first, t.route_geometry[1])
                    /\ AtPoint(last, t.route_geometry[Len(t.route_geometry)])
                    /\ last.status = "completed"
                    /\ first.time = LocalTime(activatedAt)
                    /\ timeToSeconds(last.time) - timeToSeconds(first.time)
                          = MockTotalTime
                    /\ Len(t.route_geometry) > 1 =>
                          LET end == generateTrainSample(
                                         t, 2 * SimpleHorizonMinutes - 1,
                                         activatedAt)
                          IN  /\ end.status = "completed"
                              /\ AtPoint(end,
                                    t.route_geometry[Len(t.route_geometry)])

\* C22: in every position sample the speed is 0 when the status is waiting
\* or completed, and the schedule's speed only when it is running, for the
\* interpolator, GET /api/trains/current and local generation.  The last
\* sample of mockSimulation is completed at the schedule's speed.
C22_SpeedZeroUnlessRunning ==
    LET Stopped(sample) ==
            sample.status \in {"waiting", "completed"} => sample.speed = 0
    IN  /\ (position # NoResult /\ position.status # TypeError) =>
              Stopped(position)
        /\ (liveTrain # NoResult /\ liveTrain.status # TypeError) =>
              Stopped(liveTrain)
        /\ (position # NoResult /\ Len(train.route_geometry) > 0
            /\ IsSampleTime(queryTime)) =>
              Stopped(MockSample(train, queryTime))

\* C26: a schedule with empty route geometry never makes a position
\* computation raise; local generation still produces a result for the
\* request.  mockSimulation raises on the first such train.
C26_EmptyGeometryNeverRaises ==
    \A c \in 1..Len(calls) :
        (/\ Activated(c)
         /\ ~AllGeometry(mumbaiTrainsData)
         /\ ~BackendSucceeded(c)) =>
            /\ calls[c].ret.state # "raised"
            /\ LocalResult(c)

(***************************************************************************)
(* The geometry interpolation                                              *)
(***************************************************************************)
\* C23: for a route of pointCount >= 1 points the geometry interpolation
\* takes progress = clamp(elapsed / duration, 0, 1), lowerIndex =
\* floor(progress x (pointCount - 1)), and interpolates latitude and
\* longitude linearly between route point lowerIndex and route point
\* min(lowerIndex + 1, pointCount - 1); both indices lie in the route, and
\* with two points and half the duration elapsed the result is their
\* midpoint with status running.  For interpolateTrainPosition (duration to
\* the last station's arrival, positive) and GET /api/trains/current
\* (duration 3600 s).
C23_LinearBetweenRoutePoints ==
    LET Matches(sample, route, elapsed, duration) ==
            LET pointCount == Len(route)
                clamped == Max(0, Min(elapsed, duration))
                lowerIndex == (clamped * (pointCount - 1)) \div duration
                upperIndex == Min(lowerIndex + 1, pointCount - 1)
                fraction == clamped * (pointCount - 1) - lowerIndex * duration
                lower == route[lowerIndex + 1]
                upper == route[upperIndex + 1]
            IN  /\ lowerIndex + 1 \in 1..pointCount
                /\ upperIndex + 1 \in 1..pointCount
                /\ FracEq(sample.lat,
                          Frac(lower.lat * duration
                               + (upper.lat - lower.lat) * fraction,
                               duration))
                /\ FracEq(sample.lon,
                          Frac(lower.lon * duration
                               + (upper.lon - lower.lon) * fraction,
                               duration))
                /\ (pointCount = 2 /\ 2 * elapsed = duration) =>
                      /\ sample.status = "running"
                      /\ FracEq(sample.lat,
                                Frac(route[1].lat + route[2].lat, 2))
                      /\ FracEq(sample.lon,
                                Frac(route[1].lon + route[2].lon, 2))
    IN  /\ (/\ position # NoResult
            /\ Len(train.route_geometry) > 0
            /\ Len(train.stations) > 0
            /\ ArrivalSeconds(train) > DepartureSeconds(train)) =>
              Matches(position, train.route_geometry,
                      queryTime - DepartureSeconds(train),
                      ArrivalSeconds(train) - DepartureSeconds(train))
        /\ (liveTrain # NoResult /\ Len(train.route_geometry) > 0) =>
              Matches(liveTrain, train.route_geometry,
                      queryTime - DepartureSeconds(train), JourneyDuration)

\* departure 09:00, two route points, last arrival 10:00, asked at 09:30:
\* running at the midpoint
C23_Witness ==
    /\ position # NoResult
    /\ Len(train.route_geometry) = 2
    /\ Len(train.stations) > 0
    /\ ArrivalSeconds(train) - DepartureSeconds(train) = SecondsPerHour
    /\ queryTime - DepartureSeconds(train) = SecondsPerHour \div 2
    /\ position.status = "running"
    /\ FracEq(position.lat, Frac(39, 2))

(***************************************************************************)
(* Station interpolation                                                   *)
(***************************************************************************)
\* C24: for a train without route geometry interpolateByStations returns
\* waiting at the first station (speed 0) before the first station's
\* arrival, completed at the last station (speed 0) at or after the last
\* station's arrival, and otherwise running on the leg between the two
\* consecutive stations whose arrivals bracket the time, by a leg fraction
\* that is a number in [0, 1], for every list of arrivals.  Equal arrivals
\* and the last arrival itself break it.
C24_StationLegs ==
    (/\ position # NoResult
     /\ Len(train.route_geometry) = 0
     /\ Len(train.stations) > 0) =>
        LET stations == train.stations
            n == Len(stations)
            At(k) == timeToSeconds(stations[k].arrival)
        IN  /\ queryTime < At(1) =>
                  /\ position.status = "waiting"
                  /\ position.speed = 0
                  /\ AtPoint(position, stations[1])
            /\ queryTime >= At(n) =>
                  /\ position.status = "completed"
                  /\ position.speed = 0
                  /\ AtPoint(position, stations[n])
            /\ position.status = "running" =>
                  /\ ~IsNaN(position.lat) /\ ~IsNaN(position.lon)
                  /\ \E k \in 1..(n - 1) :
                        /\ At(k) <= queryTime /\ queryTime <= At(k + 1)
                        /\ Between(position.lat, stations[k].lat,
                                   stations[k + 1].lat)
                        /\ Between(position.lon, stations[k].lon,
                                   stations[k + 1].lon)

(***************************************************************************)
(* The next station of a running train                                     *)
(***************************************************************************)
\* C25: for a running train with one or more stations the next station is
\* the station at index floor(progress x stationCount) + 1, capped at the
\* last station: always a station of the train, and its index never goes
\* down as the progress grows.
C25_NextStationByProgress ==
    (/\ position # NoResult
     /\ Len(train.route_geometry) > 0
     /\ position.status = "running") =>
        LET stationCount == Len(train.stations)
            IndexOf(sample) ==
                Min((sample.progress[1] * stationCount)
                        \div sample.progress[2] + 1,
                    stationCount - 1)
        IN  /\ stationCount >= 1
            /\ IndexOf(position) \in 0..(stationCount - 1)
            /\ position.next_station
                   = train.stations[IndexOf(position) + 1].name
            /\ \A t2 \in QueryTimes :
                  LET later == interpolateTrainPosition(train, t2)
                  IN  (queryTime < t2 /\ later.status = "running") =>
                          /\ IndexOf(position) <= IndexOf(later)
                          /\ later.next_station
                                 = train.stations[IndexOf(later) + 1].name

\* a running train with three stations heads for the second one and, at a
\* later time, for the third
C25_Witness ==
    /\ position # NoResult
    /\ Len(train.route_geometry) > 0
    /\ Len(train.stations) = 3
    /\ position.status = "running"
    /\ position.next_station = train.stations[2].name
    /\ \E t2 \in QueryTimes :
          LET later == interpolateTrainPosition(train, t2)
          IN  /\ queryTime < t2
              /\ later.status = "running"
              /\ later.next_station = train.stations[3].name

(***************************************************************************)
(* The backend's simulation state                                          *)
(***************************************************************************)
\* C27: the backend holds one simulation state of the three fields
\* startTime, isRunning and currentTime, and a step changes it only when it
\* serves a run call, to what POST /simulation/:id/run assigns; a step that
\* settles a health probe, a create call or a state query leaves every
\* field as it was.
C27_OnlyRunChangesState ==
    [][ /\ DOMAIN simulationState' = {"startTime", "isRunning", "currentTime"}
        /\ simulationState' # simulationState =>
              /\ \E c \in 1..Len(calls) :
                     calls[c].pc = "run" /\ calls'[c].pc = "done"
              /\ simulationState' = RunRoute(simulationState, now)
        /\ \A c \in 1..Len(calls) :
              ( /\ calls[c].pc \in {"probe", "create", "state"}
                /\ calls'[c].pc # calls[c].pc )
              => simulationState' = simulationState ]_vars

\* a state query issued a second after a run call was served has been
\* answered, and the state is as the run call left it
C27_Witness ==
    \E c \in 1..Len(calls) :
        /\ calls[c].kind = "current"
        /\ calls[c].pc = "done"
        /\ calls[c].query = "ok"
        /\ calls[c].timeParam = LocalTime(1)
        /\ simulationState = [startTime |-> 0, isRunning |-> TRUE,
                              currentTime |-> <<StartHour, 0, 0>>]

\* C28: the time the backend reports to a state query is what
\* getCurrentSimulationTime gives at that moment, whatever id the query
\* names; it is 09:00:00 while no run call was served, it is 09:00:00 again
\* right after every served run call (the state is not keyed by simulation
\* id), it does not decrease in a step that serves no run call, and
\* isRunning stays true once set.
C28_BackendTime ==
    [][ LET time == getCurrentSimulationTime(simulationState, now)
            timeAfter == getCurrentSimulationTime(simulationState', now')
        IN  /\ ~simulationState.isRunning => time = <<StartHour, 0, 0>>
            /\ simulationState.isRunning => simulationState'.isRunning
            /\ simulationState' # simulationState =>
                  timeAfter = <<StartHour, 0, 0>>
            /\ simulationState' = simulationState =>
                  timeToSeconds(time) <= timeToSeconds(timeAfter)
            /\ \A c \in 1..Len(calls) :
                  ( /\ calls[c].kind = "state"
                    /\ calls[c].pc = "state"
                    /\ calls'[c].pc = "done"
                    /\ calls'[c].query = "ok" )
                  => calls'[c].response.currentTime = time ]_vars

\* one state query was told 09:00:01, a second after a run call, and a later
\* run call restarted the clock, which another query saw at 09:00:00
C28_Witness ==
    /\ simulationState.isRunning
    /\ simulationState.startTime = 1
    /\ \E c, d \in 1..Len(calls) :
          /\ calls[c].query = "ok"
          /\ calls[c].response.currentTime = <<StartHour, 0, 1>>
          /\ calls[d].query = "ok"
          /\ calls[d].response.currentTime = <<StartHour, 0, 0>>

(***************************************************************************)
(* Failed upstream fetches                                                 *)
(***************************************************************************)
\* C29: a fetchRailwayTracks call whose upstream request fails or times out
\* returns a feature collection with no features and an error field, and
\* the step leaves the cache as it was; every key in the cache holds the
\* collection that the last successful fetch for exactly that bounding box
\* stored, never one with an error field; and a request for a box that has
\* a failed call and no live cache entry issues an upstream request.
C29_FailureNeverStored ==
    [][ /\ \A key \in DOMAIN cache' :
              LET v == cache'[key].v
              IN  /\ "error" \notin DOMAIN v
                  /\ key = KeyOf(v.metadata.boundingBox)
                  /\ v = stored'[v.metadata.boundingBox].v
        /\ \A c \in 1..Len(fetches) :
              ( /\ fetches[c].pc = "fetching"
                /\ fetches'[c].pc = "done"
                /\ "error" \in DOMAIN fetches'[c].result )
              => /\ fetches'[c].result.type = "FeatureCollection"
                 /\ fetches'[c].result.features = <<>>
                 /\ fetches'[c].result.metadata.boundingBox = fetches[c].box
                 /\ cache' = cache
        /\ Len(fetches') > Len(fetches) =>
              LET new == fetches'[Len(fetches')]
              IN  ( /\ \E c \in 1..Len(fetches) :
                          /\ fetches[c].box = new.box
                          /\ fetches[c].pc = "done"
                          /\ "error" \in DOMAIN fetches[c].result
                    /\ cacheGet(cache, KeyOf(new.box), trackClock)
                          = Undefined )
                  => new.pc = "fetching" /\ new.requests = 1 ]_vars

\* a call for a box failed, and another call for the same box issued its
\* own upstream request, was answered and its collection is the cached one
C29_Witness ==
    \E c, d \in 1..Len(fetches) :
        /\ c < d
        /\ fetches[c].pc = "done"
        /\ fetches[c].requests = 1
        /\ "error" \in DOMAIN fetches[c].result
        /\ fetches[d].box = fetches[c].box
        /\ fetches[d].pc = "done"
        /\ fetches[d].requests = 1
        /\ "error" \notin DOMAIN fetches[d].result
        /\ fetches[d].result.features # <<>>
        /\ KeyOf(fetches[d].box) \in DOMAIN cache
        /\ cache[KeyOf(fetches[d].box)].v = fetches[d].result

(***************************************************************************)
(* Concurrent requests for one uncached bounding box                       *)
(***************************************************************************)
\* C30: of the fetchRailwayTracks calls for one bounding box that found it
\* uncached and are in flight together, at most one has issued an upstream
\* request, and two calls that found the same box uncached and were
\* answered at one reading of the clock return the same features.
C30_OneFetchPerBox ==
    \A c, d \in 1..Len(fetches) :
        ( /\ c < d
          /\ fetches[c].box = fetches[d].box
          /\ fetches[c].cachedData = Undefined
          /\ fetches[d].cachedData = Undefined )
        => /\ ( fetches[c].pc = "fetching" /\ fetches[d].pc = "fetching" )
                => fetches[c].requests + fetches[d].requests <= 1
           /\ ( /\ fetches[c].pc = "done"
                /\ fetches[d].pc = "done"
                /\ fetches[c].result.metadata.fetchedAt
                      = fetches[d].result.metadata.fetchedAt )
                => fetches[c].result.features = fetches[d].result.features

====
